---- MODULE Spec2Model ----
(***************************************************************************)
(* Model of src/protocols/write/src/write.py: the Metadata header, the     *)
(* RecordBuilder and the write / write_stream entry points.                *)
(*                                                                         *)
(* A Python object is a record of attribute slots.  A slot is <<>> while   *)
(* the attribute has never been assigned (reading it raises                *)
(* AttributeError) and <<v>> once it holds v.  A call is a record          *)
(*   [obj |-> object after the call, exc |-> exception or "none",          *)
(*    ret |-> kind of value returned, out |-> the returned text]           *)
(* and an exception leaves the assignments made before it in place.        *)
(*                                                                         *)
(* The module is taken as loaded: the annotation 'pub_key: string' of      *)
(* write_crypto names nothing, which an interpreter that evaluates         *)
(* annotations at definition time rejects with NameError at import.        *)
(***************************************************************************)
EXTENDS Integers, Sequences, FiniteSets, TLC

(* ---------------------------- bounds ----------------------------------- *)
MaxLen == 2
MaxCalls == 4
MaxTotalCalls == 6
MaxChunks == 2

(* ---------------------------- inputs ----------------------------------- *)
Chars == {"a", "e_acute"}
Features == {"featA", "featB"}
Authors == {"authX", "authY"}
Times == {1, 2}
Builders == {1, 2}

\* What open(path, 'a') hands back: a handle whose writes reach the file,
\* or one whose writes the device rejects (OSError).
Handles == {"open", "failing"}

Contents == UNION {[1..n -> Chars] : n \in 0..MaxLen}

ChunkLists == UNION {[1..n -> Contents] : n \in 0..MaxChunks}

RECURSIVE Concat(_)
Concat(chunks) ==
    IF chunks = <<>> THEN <<>> ELSE Head(chunks) \o Concat(Tail(chunks))

\* The ways of splitting one content into at most MaxChunks chunks, each
\* of them carrying at least one character.
Scripts ==
    {cs \in ChunkLists :
        /\ Len(Concat(cs)) <= MaxLen
        /\ \A k \in 1..Len(cs) : cs[k] # <<>>}

(* ------------------------- Python values ------------------------------- *)
NoExc == "none"

Unset == <<>>

IsSet(slot) == slot # <<>>

Val(slot) == slot[1]

\* str.encode('utf-8') of one character: ASCII is one byte, U+00E9 is two.
Utf8Char(c) == IF c = "a" THEN <<97>> ELSE <<195, 169>>

RECURSIVE Utf8(_)
Utf8(content) ==
    IF content = <<>> THEN <<>>
    ELSE Utf8Char(Head(content)) \o Utf8(Tail(content))

\* hashlib.md5: the running state is the bytes fed so far.
md5_new == <<>>

\* update(bytes); append_body raises on the line before its only use.
md5_update(h, bytes) == h \o bytes

\* hexdigest(): a fixed function of the bytes fed, in the order fed.
md5_hexdigest(h) == [alg |-> "md5", of |-> h]

(* ----------------------------- Metadata -------------------------------- *)
\* Metadata.__new__: the class body holds annotations only, so a new
\* instance has no attribute.
Metadata_new ==
    [key |-> Unset, feature |-> Unset, author |-> Unset,
     created_at |-> Unset, size |-> Unset]

\* Metadata.__init__: sets created_at and returns self.
Metadata_init(m, now) ==
    [obj |-> [m EXCEPT !.created_at = <<now>>], exc |-> NoExc,
     ret |-> "self", out |-> <<>>]

\* Metadata(): type.__call__ raises TypeError when __init__ returns a value
\* other than None.
Metadata_call(now) ==
    LET r == Metadata_init(Metadata_new, now) IN
    IF r.exc # NoExc THEN r
    ELSE IF r.ret # "None" THEN [r EXCEPT !.exc = "TypeError", !.ret = "raised"]
    ELSE r

\* Metadata.get_info: reads feature, author, created_at, size in that order.
Metadata_get_info(m) ==
    IF \/ ~IsSet(m.feature) \/ ~IsSet(m.author)
       \/ ~IsSet(m.created_at) \/ ~IsSet(m.size)
    THEN [obj |-> m, exc |-> "AttributeError", ret |-> "raised", out |-> <<>>]
    ELSE [obj |-> m, exc |-> NoExc, ret |-> "str",
          out |-> <<"feature:", Val(m.feature), ";author:", Val(m.author),
                    ";create_at:", Val(m.created_at), ";size:", Val(m.size), ";">>]

\* Metadata.__str__: 'key:<key>;' followed by get_info().
Metadata_str(m) ==
    IF ~IsSet(m.key)
    THEN [obj |-> m, exc |-> "AttributeError", ret |-> "raised", out |-> <<>>]
    ELSE LET i == Metadata_get_info(m) IN
         IF i.exc # NoExc THEN i
         ELSE [i EXCEPT !.out = <<"key:", Val(m.key), ";">> \o i.out]

(* --------------------------- RecordBuilder ----------------------------- *)
\* RecordBuilder.__new__: RecordBase declares head, body, key_builder and
\* __complete as annotations only; no attribute exists yet.  The slot
\* 'complete' is the name-mangled _RecordBuilder__complete.
RecordBuilder_new ==
    [meta |-> Unset, body |-> Unset, key_builder |-> Unset, complete |-> Unset]

Raise(self, e) == [obj |-> self, exc |-> e, ret |-> "raised", out |-> <<>>]

\* RecordBuilder.__init__(feature).
RecordBuilder_init(self, feature, now) ==
    IF ~IsSet(self.meta)                       \* self.meta.feature = feature
    THEN Raise(self, "AttributeError")
    ELSE LET s1 == [self EXCEPT !.meta = <<[Val(self.meta) EXCEPT !.feature = <<feature>>]>>]
             m  == Metadata_call(now)          \* self.meta = Metadata()
         IN IF m.exc # NoExc THEN Raise(s1, m.exc)
            ELSE [obj |-> [s1 EXCEPT !.meta = <<m.obj>>,
                                     !.key_builder = <<md5_new>>,
                                     !.complete = <<FALSE>>],
                  exc |-> NoExc, ret |-> "add_author", out |-> <<>>]

\* RecordBuilder(feature): __new__, then __init__; TypeError when __init__
\* returns a value other than None.
RecordBuilder_call(feature, now) ==
    LET r == RecordBuilder_init(RecordBuilder_new, feature, now) IN
    IF r.exc # NoExc THEN r
    ELSE IF r.ret # "None" THEN [r EXCEPT !.exc = "TypeError", !.ret = "raised"]
    ELSE r

\* RecordBuilder.__add_author(author).
add_author(self, author) ==
    IF ~IsSet(self.complete) THEN Raise(self, "AttributeError")
    ELSE IF Val(self.complete) THEN Raise(self, "already complete")
    ELSE IF ~IsSet(self.meta) THEN Raise(self, "AttributeError")
    ELSE [obj |-> [self EXCEPT !.meta = <<[Val(self.meta) EXCEPT !.author = <<author>>]>>],
          exc |-> NoExc, ret |-> "self", out |-> <<>>]

\* RecordBuilder.append_body(content): 'self.body += content' runs before
\* 'encode += ...', whose local name is read before any assignment.
append_body(self, content) ==
    IF ~IsSet(self.complete) THEN Raise(self, "AttributeError")
    ELSE IF Val(self.complete) THEN Raise(self, "already complete")
    ELSE IF ~IsSet(self.body) THEN Raise(self, "AttributeError")
    ELSE Raise([self EXCEPT !.body = <<Val(self.body) \o content>>],
               "UnboundLocalError")

\* RecordBuilder.complete().
complete(self) ==
    IF ~IsSet(self.complete) THEN Raise(self, "AttributeError")
    ELSE IF Val(self.complete) THEN Raise(self, "already complete")
    ELSE IF ~IsSet(self.key_builder) \/ ~IsSet(self.meta)
    THEN Raise(self, "AttributeError")
    ELSE [obj |-> [self EXCEPT
                     !.meta = <<[Val(self.meta) EXCEPT
                                   !.key = <<md5_hexdigest(Val(self.key_builder))>>]>>,
                     !.complete = <<TRUE>>],
          exc |-> NoExc, ret |-> "self", out |-> <<>>]

\* RecordBuilder.result().
result(self) ==
    IF ~IsSet(self.complete) THEN Raise(self, "AttributeError")
    ELSE IF ~Val(self.complete) THEN Raise(self, "not complete")
    ELSE IF ~IsSet(self.meta) THEN Raise(self, "AttributeError")
    ELSE LET s == Metadata_str(Val(self.meta)) IN
         IF s.exc # NoExc THEN Raise(self, s.exc)
         ELSE IF ~IsSet(self.body) THEN Raise(self, "AttributeError")
         ELSE [obj |-> self, exc |-> NoExc, ret |-> "str",
               out |-> s.out \o <<"body:", Val(self.body), "\n">>]

(* ------------------------------- write --------------------------------- *)
\* A close() placed after the block instead of a with statement: an
\* exception skips it and the handle stays as it was.
with_exit_on_return(file, exc) == IF exc = NoExc THEN "closed" ELSE file

\* Leaving 'with open(path, "a") as f', by a return or by an exception,
\* closes f.
with_exit(file, exc) == "closed"

\* write() with f.write moved ahead of the builder: the body text reaches
\* the file whether or not a record is ever sealed.
write_run_unsealed(feature, author, content, now, file) ==
    [exc |-> RecordBuilder_call(feature, now).exc,
     wrote |-> << <<"body:", content, "\n">> >>, key |-> Unset,
     record |-> Unset]

\* The body of 'with open(path, "a") as f' in write(): the chained calls,
\* f.write(record.result()) and the returned key.  'wrote' is what reached
\* the file: nothing when an exception left the block before f.write or
\* when f.write itself failed.  'record' is the local variable of that
\* name, unset until the chain has returned.
write_run(feature, author, content, now, file) ==
    LET c == RecordBuilder_call(feature, now)
        a == add_author(c.obj, author)
        b == append_body(a.obj, content)
        k == complete(b.obj)
        r == result(k.obj)
        failed(e, rec) ==
            [exc |-> e, wrote |-> <<>>, key |-> Unset, record |-> rec]
    IN IF c.exc # NoExc THEN failed(c.exc, Unset)
       ELSE IF a.exc # NoExc THEN failed(a.exc, Unset)
       ELSE IF b.exc # NoExc THEN failed(b.exc, Unset)
       ELSE IF k.exc # NoExc THEN failed(k.exc, Unset)
       ELSE IF r.exc # NoExc THEN failed(r.exc, <<k.obj>>)
       ELSE IF file = "failing" THEN failed("OSError", <<k.obj>>)
       ELSE [exc |-> NoExc, wrote |-> <<r.out>>, key |-> Val(k.obj.meta).key,
             record |-> <<k.obj>>]

(* ---------------------------- write_stream ----------------------------- *)
\* The body of the with block of write_stream(): record =
\* RecordBuilder(feature)(author), then the two closures are returned.
stream_bind(feature, author, now) ==
    LET c == RecordBuilder_call(feature, now)
        a == add_author(c.obj, author)
    IN IF c.exc # NoExc THEN [exc |-> c.exc, record |-> Unset]
       ELSE IF a.exc # NoExc THEN [exc |-> a.exc, record |-> Unset]
       ELSE [exc |-> NoExc, record |-> <<a.obj>>]

\* The closure append(content): record.append_body(content).
append_handle(record, content) == append_body(record, content)

\* The closure complete(): record.complete(); f.write(record.result());
\* return record.meta.key.  f is the handle of the with block, which the
\* return of write_stream has closed: writing to it raises ValueError.
\* (A handle still open whose device rejects the write raises OSError.)
complete_handle(record, file) ==
    LET k == complete(record)
        r == result(k.obj)
        failed(o, e) == [obj |-> o, exc |-> e, wrote |-> <<>>, key |-> Unset]
    IN IF k.exc # NoExc THEN failed(k.obj, k.exc)
       ELSE IF r.exc # NoExc THEN failed(k.obj, r.exc)
       ELSE IF file = "closed" THEN failed(k.obj, "ValueError")
       ELSE IF file = "failing" THEN failed(k.obj, "OSError")
       ELSE [obj |-> k.obj, exc |-> NoExc, wrote |-> <<r.out>>,
             key |-> Val(k.obj.meta).key]

(* ------------------------------ state ---------------------------------- *)
\* obj[i]  : the attributes of builder object i
\* hist[i] : the calls made on builder i, oldest first, each with the
\*           exception it raised ("none" if it returned) and the text it
\*           returned
\* sink    : the lines of the file at 'path', oldest first
\* w       : the one write() call of the run, in progress or finished;
\*           'wrote' is the text it passed to f.write
\* s       : the one write_stream() session of the run: 'script'
\*           is the chunks its caller appends before complete(), 'at' how
\*           many of them have been passed to append()
VARIABLES obj, hist, sink, w, s

vars == <<obj, hist, sink, w, s>>

facadeVars == <<sink, w, s>>

builderVars == <<obj, hist>>

Call(op, arg, r) == [op |-> op, arg |-> arg, exc |-> r.exc, out |-> r.out]

TotalCalls == Len(hist[1]) + Len(hist[2])

\* The run makes at most MaxCalls calls on one builder, MaxTotalCalls in all.
CanCall(i) == Len(hist[i]) < MaxCalls /\ TotalCalls < MaxTotalCalls

\* A line already in the file before the program runs.
PriorLine ==
    <<"key:", md5_hexdigest(<<>>), ";", "feature:", "featA", ";author:", "authX",
      ";create_at:", 1, ";size:", 0, ";", "body:", <<>>, "\n">>

IdleWrite ==
    [pc |-> "idle", file |-> "none", feature |-> "", author |-> "",
     content |-> <<>>, exc |-> NoExc, key |-> Unset, wrote |-> <<>>,
     record |-> Unset]

IdleStream ==
    [pc |-> "idle", file |-> "none", feature |-> "", author |-> "",
     script |-> <<>>, at |-> 0, record |-> Unset, exc |-> NoExc, key |-> Unset,
     wrote |-> <<>>]

Init ==
    /\ obj = [i \in Builders |-> RecordBuilder_new]
    /\ hist = [i \in Builders |-> <<>>]
    /\ sink \in {<<>>, <<PriorLine>>}
    /\ w = IdleWrite
    /\ s = IdleStream

(* ----------------------- calls on a RecordBuilder ---------------------- *)
\* An object whose __init__ raised stays alive for whoever holds it (the
\* traceback's frame holds self), so every method can be called on
\* builder i once RecordBuilder(feature) has been evaluated for it.
Record(i, op, arg, r) ==
    /\ obj' = [obj EXCEPT ![i] = r.obj]
    /\ hist' = [hist EXCEPT ![i] = Append(@, Call(op, arg, r))]
    /\ UNCHANGED facadeVars

\* b = RecordBuilder(feature)
Construct(i, feature, now) ==
    /\ hist[i] = <<>>
    /\ CanCall(i)
    /\ Record(i, "construct", <<feature>>, RecordBuilder_call(feature, now))

\* the callable returned by the constructor: b.__add_author(author)
AssignAuthor(i, author) ==
    /\ hist[i] # <<>>
    /\ CanCall(i)
    /\ Record(i, "assign_author", <<author>>, add_author(obj[i], author))

\* b.append_body(content)
AppendBody(i, content) ==
    /\ hist[i] # <<>>
    /\ CanCall(i)
    /\ Record(i, "append_body", content, append_body(obj[i], content))

\* b.complete()
Seal(i) ==
    /\ hist[i] # <<>>
    /\ CanCall(i)
    /\ Record(i, "seal", <<>>, complete(obj[i]))

\* b.result()
Render(i) ==
    /\ hist[i] # <<>>
    /\ CanCall(i)
    /\ Record(i, "render", <<>>, result(obj[i]))

(* ------------------------------ write() -------------------------------- *)
\* write(path, feature, author, content) enters 'with open(path, "a")'.
WriteOpen(feature, author, content, handle) ==
    /\ w.pc = "idle"
    /\ w' = [IdleWrite EXCEPT !.pc = "opened", !.file = handle,
                              !.feature = feature, !.author = author,
                              !.content = content]
    /\ UNCHANGED <<sink, s, builderVars>>

\* The with block runs and is left, by the return or by an exception; the
\* file is closed either way.
WriteRun(now) ==
    /\ w.pc = "opened"
    /\ LET r == write_run(w.feature, w.author, w.content, now, w.file) IN
       /\ sink' = sink \o r.wrote
       /\ w' = [w EXCEPT !.pc = "done", !.file = with_exit(w.file, r.exc),
                         !.exc = r.exc, !.key = r.key, !.wrote = r.wrote,
                         !.record = r.record]
    /\ UNCHANGED <<s, builderVars>>

(* --------------------------- write_stream() ---------------------------- *)
\* The caller of the docstring: append, complete = write_stream(path,
\* feature, author); append(content) for each chunk; key = complete().
\* write_stream enters 'with open(path, "a")'.
StreamOpen(feature, author, chunks, handle) ==
    /\ s.pc = "idle"
    /\ s' = [IdleStream EXCEPT !.pc = "opened", !.file = handle,
                               !.feature = feature, !.author = author,
                               !.script = chunks]
    /\ UNCHANGED <<sink, w, builderVars>>

\* One statement of the session: the rest of write_stream (which leaves the
\* with block and so closes the file), then one append(content) per chunk,
\* then complete().  An exception ends the session.
StreamStep(now) ==
    /\ s.pc \in {"opened", "session"}
    /\ IF s.pc = "opened"
       THEN LET r == stream_bind(s.feature, s.author, now) IN
            /\ s' = [s EXCEPT !.pc = IF r.exc = NoExc THEN "session" ELSE "ended",
                              !.file = with_exit(s.file, r.exc),
                              !.record = r.record,
                              !.exc = r.exc]
            /\ sink' = sink
       ELSE IF s.at < Len(s.script)
       THEN LET r == append_handle(Val(s.record), s.script[s.at + 1]) IN
            /\ s' = [s EXCEPT !.pc = IF r.exc = NoExc THEN "session" ELSE "ended",
                              !.record = <<r.obj>>, !.at = s.at + 1,
                              !.exc = r.exc]
            /\ sink' = sink
       ELSE LET r == complete_handle(Val(s.record), s.file) IN
            /\ s' = [s EXCEPT !.pc = "ended", !.record = <<r.obj>>,
                              !.exc = r.exc, !.key = r.key,
                              !.wrote = r.wrote]
            /\ sink' = sink \o r.wrote
    /\ UNCHANGED <<w, builderVars>>

Next ==
    \/ \E i \in Builders, f \in Features, now \in Times : Construct(i, f, now)
    \/ \E i \in Builders, a \in Authors : AssignAuthor(i, a)
    \/ \E i \in Builders, c \in Contents : AppendBody(i, c)
    \/ \E i \in Builders : Seal(i)
    \/ \E i \in Builders : Render(i)

Spec == Init /\ [][Next]_vars

FacadeNext ==
    \/ \E f \in Features, a \in Authors, c \in Contents, h \in Handles :
           WriteOpen(f, a, c, h)
    \/ \E now \in Times : WriteRun(now)
    \/ \E f \in Features, a \in Authors, cs \in Scripts, h \in Handles :
           StreamOpen(f, a, cs, h)
    \/ \E now \in Times : StreamStep(now)

FacadeSpec == Init /\ [][FacadeNext]_vars

\* A call that has begun keeps running: the interpreter executes the body
\* of write() and of write_stream() to its return or its exception.
FairFacadeSpec ==
    /\ FacadeSpec
    /\ WF_vars(\E now \in Times : WriteRun(now))
    /\ WF_vars(\E now \in Times : StreamStep(now))

(* ======================= the record builder's contract ================== *)
\* The life cycle the specification gives a builder after the calls h:
\* construct makes it Initializing, assign_author in Initializing makes it
\* Open, seal in Open makes it Sealed, and no other call moves it.
RECURSIVE Lifecycle(_)
Lifecycle(h) ==
    IF h = <<>> THEN "none"
    ELSE LET st == Lifecycle(SubSeq(h, 1, Len(h) - 1))
             op == h[Len(h)].op
         IN CASE st = "none" /\ op = "construct" -> "Initializing"
              [] st = "Initializing" /\ op = "assign_author" -> "Open"
              [] st = "Open" /\ op = "seal" -> "Sealed"
              [] OTHER -> st

\* The contents the calls h append: those of the append_body calls made
\* while the builder is Open, in call order.
RECURSIVE Appended(_)
Appended(h) ==
    IF h = <<>> THEN <<>>
    ELSE LET before == SubSeq(h, 1, Len(h) - 1)
             c == h[Len(h)]
         IN IF c.op = "append_body" /\ Lifecycle(before) = "Open"
            THEN Append(Appended(before), c.arg)
            ELSE Appended(before)

\* The first argument of the first call named op in h, <<>> if there is none.
RECURSIVE ArgOf(_, _)
ArgOf(h, op) ==
    IF h = <<>> THEN <<>>
    ELSE IF Head(h).op = op THEN Head(h).arg
    ELSE ArgOf(Tail(h), op)

ByteLen(content) == Len(Utf8(content))

Digest(content) == md5_hexdigest(Utf8(content))

\* The slots of self.meta.key, self.meta.size and self.body as a caller
\* reads them: unset while self.meta itself is.
KeyOf(o) == IF IsSet(o.meta) THEN Val(o.meta).key ELSE Unset

SizeOf(o) == IF IsSet(o.meta) THEN Val(o.meta).size ELSE Unset

BodyOf(o) == o.body

\* The errors the code raises for a call its state forbids.
StateErrors == {"already complete", "not complete"}

\* The call this step makes on builder i, if it makes one.
Calls(i, op) ==
    /\ Len(hist'[i]) = Len(hist[i]) + 1
    /\ hist'[i][Len(hist'[i])].op = op

LastCall(i) == hist'[i][Len(hist'[i])]

\* C1: in every state of a builder, under any sequence of construct,
\* assign_author, append_body, seal and render calls, Metadata.key is
\* defined exactly when the builder is Sealed, and it is then the digest of
\* the concatenation, in append order, of the contents appended before the
\* seal.
C1_KeyIffSealed ==
    \A i \in Builders :
        /\ IsSet(KeyOf(obj[i])) <=> Lifecycle(hist[i]) = "Sealed"
        /\ IsSet(KeyOf(obj[i])) =>
               Val(KeyOf(obj[i])) = Digest(Concat(Appended(hist[i])))

\* C2: one-time sealing: on a builder that has been sealed, a second seal()
\* fails with an error, and Metadata.size and Metadata.key hold after it the
\* values they held right after the first seal.
C2_SecondSealFails ==
    [][\A i \in Builders :
         (Lifecycle(hist[i]) = "Sealed" /\ Calls(i, "seal")) =>
             /\ LastCall(i).exc # NoExc
             /\ IsSet(KeyOf(obj[i])) /\ KeyOf(obj'[i]) = KeyOf(obj[i])
             /\ IsSet(SizeOf(obj[i])) /\ SizeOf(obj'[i]) = SizeOf(obj[i])]_vars

\* C3: append_body on a builder that is still Initializing fails with
\* InvalidState and appends nothing; no append_body returns before an
\* author has been assigned.
C3_AppendNeedsAuthor ==
    [][\A i \in Builders :
         (Lifecycle(hist[i]) = "Initializing" /\ Calls(i, "append_body")) =>
             /\ LastCall(i).exc \in StateErrors
             /\ BodyOf(obj'[i]) = BodyOf(obj[i])
             /\ obj'[i].key_builder = obj[i].key_builder]_vars

\* C4: render() on a builder that is not Sealed fails with NotSealed and
\* returns no text; text is only ever returned by render() on a Sealed
\* builder.
C4_RenderNeedsSeal ==
    [][\A i \in Builders :
         Calls(i, "render") =>
             /\ LastCall(i).out # <<>> => Lifecycle(hist[i]) = "Sealed"
             /\ Lifecycle(hist[i]) \in {"Initializing", "Open"} =>
                    LastCall(i).exc = "not complete" /\ LastCall(i).out = <<>>]_vars

\* C5: in every state of a builder, Metadata.size is the sum of the byte
\* lengths of the contents appended so far, 0 before any append; so each
\* append_body(content) adds the byte length of content to it, and an empty
\* content leaves size and body as they are.
C5_SizeIsBytesAppended ==
    \A i \in Builders :
        Lifecycle(hist[i]) # "none" =>
            /\ IsSet(SizeOf(obj[i]))
            /\ Val(SizeOf(obj[i])) = ByteLen(Concat(Appended(hist[i])))

\* Both builders have been given feature, author and contents and sealed.
BothSealed == \A i \in Builders : Lifecycle(hist[i]) = "Sealed"

SameTags ==
    /\ ArgOf(hist[1], "construct") = ArgOf(hist[2], "construct")
    /\ ArgOf(hist[1], "assign_author") = ArgOf(hist[2], "assign_author")

KeysAgree ==
    /\ \A i \in Builders : IsSet(KeyOf(obj[i]))
    /\ KeyOf(obj[1]) = KeyOf(obj[2])

\* C6: determinism: two freshly constructed builders given the same
\* feature, the same author and the same sequence of append_body contents,
\* and then sealed, end with the same key.
C6_SameCallsSameKey ==
    (BothSealed /\ SameTags /\ Appended(hist[1]) = Appended(hist[2]))
        => KeysAgree

\* C7: chunk-boundary independence: the key of a sealed record depends only
\* on the concatenation of the appended contents; append(x), append(y),
\* seal gives the key that append(x \o y), seal gives.
C7_SameBytesSameKey ==
    (BothSealed /\ Concat(Appended(hist[1])) = Concat(Appended(hist[2])))
        => KeysAgree

(* ========================= the write facade's contract ================== *)
\* The fields of a rendered line
\* key:<K>;feature:<F>;author:<A>;create_at:<T>;size:<N>;body:<B>\n
IsLine(line) ==
    /\ Len(line) = 15
    /\ line[1] = "key:" /\ line[3] = ";" /\ line[4] = "feature:"
    /\ line[6] = ";author:" /\ line[8] = ";create_at:" /\ line[10] = ";size:"
    /\ line[12] = ";" /\ line[13] = "body:" /\ line[15] = "\n"

LineKey(line) == line[2]

LineFeature(line) == line[5]

LineAuthor(line) == line[7]

LineSize(line) == line[11]

LineBody(line) == line[14]

\* A complete rendered record: every field is there and the key is the
\* digest of the body, as it is once the builder is Sealed.
IsRecordLine(line) == IsLine(line) /\ LineKey(line) = Digest(LineBody(line))

\* Two lines that differ at most in the create_at field.
SameButTime(l1, l2) ==
    /\ Len(l1) = Len(l2)
    /\ \A k \in 1..Len(l1) : k # 9 => l1[k] = l2[k]

\* C8: write_once(sink, feature, author, content) constructs a builder,
\* assigns the author, appends the content, seals, renders and appends to
\* the sink: it returns a key K, the sink has gained exactly one line, with
\* the given feature and author, size the byte length of content and body
\* content, and K is the digest of content.
C8_WriteOnce ==
    [][(w.pc = "opened" /\ w'.pc = "done") =>
         /\ w'.exc = NoExc
         /\ w'.key = <<Digest(w.content)>>
         /\ Len(sink') = Len(sink) + 1
         /\ LET line == sink'[Len(sink')] IN
            /\ sink' = Append(sink, line)
            /\ IsLine(line)
            /\ LineKey(line) = Digest(w.content)
            /\ LineFeature(line) = w.feature
            /\ LineAuthor(line) = w.author
            /\ LineSize(line) = ByteLen(w.content)
            /\ LineBody(line) = w.content]_vars

\* C9: streaming equivalence: a write_stream session that appends the
\* chunks c_1 .. c_n and then seals returns the key, and appends to the sink
\* the line but for its timestamp, that write_once returns and appends for
\* the concatenation of the chunks with the same feature and author.
C9_StreamLikeWriteOnce ==
    (/\ w.pc = "done" /\ s.pc = "ended"
     /\ s.feature = w.feature /\ s.author = w.author
     /\ Concat(s.script) = w.content)
        => /\ w.exc = NoExc /\ s.exc = NoExc
           /\ IsSet(w.key) /\ s.key = w.key
           /\ Len(w.wrote) = 1 /\ Len(s.wrote) = 1
           /\ SameButTime(s.wrote[1], w.wrote[1])

\* The builder of the session is Sealed: its completion flag is set.
StreamSealed == IsSet(s.record) /\ Val(s.record).complete = <<TRUE>>

AuthorOf(o) == IF IsSet(o.meta) THEN Val(o.meta).author ELSE Unset

FeatureOf(o) == IF IsSet(o.meta) THEN Val(o.meta).feature ELSE Unset

\* The texts render() has returned to the calls h made while Sealed.
RECURSIVE Renders(_)
Renders(h) ==
    IF h = <<>> THEN {}
    ELSE LET before == SubSeq(h, 1, Len(h) - 1)
             c == h[Len(h)]
         IN IF c.op = "render" /\ Lifecycle(before) = "Sealed"
            THEN Renders(before) \cup {c.out}
            ELSE Renders(before)

\* C12: append_body on a Sealed builder fails with AlreadySealed and leaves
\* the record's body, size and key, and the sink, as they were.  (The same
\* is claimed of append_handle after seal_handle, which forwards to
\* append_body.)
C12_AppendAfterSeal ==
    [][\A i \in Builders :
         (Lifecycle(hist[i]) = "Sealed" /\ Calls(i, "append_body")) =>
             /\ LastCall(i).exc = "already complete"
             /\ obj'[i] = obj[i]
             /\ sink' = sink]_vars

\* C15: Sealed is terminal: a Sealed builder has its completion flag and
\* its key set, and no assign_author, append_body, seal or render call
\* changes its flag, key, author, feature, size or body; size never
\* decreases.
C15_SealedIsTerminal ==
    [][\A i \in Builders :
         /\ Lifecycle(hist[i]) = "Sealed" =>
                /\ obj[i].complete = <<TRUE>> /\ IsSet(KeyOf(obj[i]))
                /\ obj'[i] = obj[i]
         /\ IsSet(SizeOf(obj[i])) =>
                /\ IsSet(SizeOf(obj'[i]))
                /\ Val(SizeOf(obj'[i])) >= Val(SizeOf(obj[i]))]_vars

\* C16: assign_author succeeds on an Initializing builder, setting
\* Metadata.author; on a builder that is Open or Sealed it fails with an
\* error and leaves Metadata.author at the value of the first call.
C16_AuthorSetOnce ==
    [][\A i \in Builders :
         Calls(i, "assign_author") =>
             IF Lifecycle(hist[i]) = "Initializing"
             THEN /\ LastCall(i).exc = NoExc
                  /\ AuthorOf(obj'[i]) = LastCall(i).arg
             ELSE /\ LastCall(i).exc # NoExc
                  /\ AuthorOf(obj'[i]) = AuthorOf(obj[i])
                  /\ AuthorOf(obj'[i]) = ArgOf(hist[i], "assign_author")]_vars

\* C17: in every state of a builder, also after an append_body that
\* failed, the bytes fed to the digest are the UTF-8 encoding of the body
\* buffer.
C17_DigestFedIsBody ==
    \A i \in Builders :
        Lifecycle(hist[i]) # "none" =>
            /\ IsSet(BodyOf(obj[i])) /\ IsSet(obj[i].key_builder)
            /\ Val(obj[i].key_builder) = Utf8(Val(BodyOf(obj[i])))

\* C20: render() on a Sealed builder changes nothing of it and returns the
\* serialized form: the metadata summary with the builder's key, feature,
\* author and size, then the body and a newline; every render() of the
\* same sealed builder returns the same text.
C20_RenderIsPure ==
    [][\A i \in Builders :
         (Lifecycle(hist[i]) = "Sealed" /\ Calls(i, "render")) =>
             /\ obj'[i] = obj[i]
             /\ LastCall(i).exc = NoExc
             /\ LET line == LastCall(i).out IN
                /\ IsLine(line)
                /\ <<LineKey(line)>> = KeyOf(obj[i])
                /\ <<LineFeature(line)>> = FeatureOf(obj[i])
                /\ <<LineAuthor(line)>> = AuthorOf(obj[i])
                /\ <<LineSize(line)>> = SizeOf(obj[i])
                /\ <<LineBody(line)>> = BodyOf(obj[i])
                /\ \A t \in Renders(hist[i]) : t = line]_vars

(* ================== the write facade's contract, continued ============== *)
\* C13: a streaming session holds its sink handle for the whole session:
\* while the caller holds the two handles the file is open, and the session
\* ends with seal_handle having sealed, rendered, appended the record to the
\* sink and returned the key, the file being released only then.
C13_SessionHoldsSink ==
    /\ s.pc = "session" => s.file \in Handles
    /\ s.pc = "ended" =>
           /\ s.exc = NoExc /\ IsSet(s.key) /\ StreamSealed
           /\ Len(s.wrote) = 1
           /\ s.file = "closed"

\* C14: when the sink rejects the append of write_once or of seal_handle,
\* that failure is what the caller gets, the sink gains nothing, and the
\* builder is Sealed with its key in memory.
C14_SinkFailure ==
    [][/\ (w.pc = "opened" /\ w.file = "failing" /\ w'.pc = "done") =>
              /\ w'.exc = "OSError"
              /\ sink' = sink
              /\ IsSet(w'.record) /\ Val(w'.record).complete = <<TRUE>>
              /\ IsSet(KeyOf(Val(w'.record)))
       /\ (s.pc = "session" /\ s.file = "failing" /\ s'.pc = "ended"
           /\ s.at = Len(s.script)) =>
              /\ s'.exc = "OSError"
              /\ sink' = sink
              /\ StreamSealed' /\ IsSet(KeyOf(Val(s'.record)))]_vars

\* C18: every sink handle acquired by write_once or by a write_stream
\* session is eventually closed, whichever way the call leaves (a failure in
\* the construction, in append_body or in seal included), and none is still
\* acquired once the call or session has ended.
C18_SinkReleased ==
    /\ [](w.pc = "done" => w.file = "closed")
    /\ [](s.pc = "ended" => s.file = "closed")
    /\ (w.file \in Handles) ~> (w.file = "closed")
    /\ (s.file \in Handles) ~> (s.file = "closed")

\* Both calls acquired the handle and left by an exception, and both
\* handles are closed.
C18_Witness ==
    /\ w.pc = "done" /\ w.exc # NoExc /\ w.file = "closed"
    /\ s.pc = "ended" /\ s.exc # NoExc /\ s.file = "closed"

\* The record a session on the given content holds when it has run alone:
\* body, size and key are those of that content.
RecordOf(record, content) ==
    /\ IsSet(record)
    /\ BodyOf(Val(record)) = <<content>>
    /\ SizeOf(Val(record)) = <<ByteLen(content)>>
    /\ KeyOf(Val(record)) = <<Digest(content)>>

\* C19: two write sessions on distinct records do not interfere: however
\* the steps of the write_once call and of the write_stream session are
\* interleaved, each ends with the body, size and key of its own content,
\* and the sink has gained the lines of the two sessions whole, one after
\* the other, each line carrying its own session's body.
C19_SessionsIndependent ==
    (w.pc = "done" /\ s.pc = "ended") =>
        /\ RecordOf(w.record, w.content)
        /\ RecordOf(s.record, Concat(s.script))
        /\ \A l \in {w.wrote, s.wrote} : Len(l) = 1 => IsRecordLine(l[1])
        /\ Len(w.wrote) = 1 => LineBody(w.wrote[1]) = w.content
        /\ Len(s.wrote) = 1 => LineBody(s.wrote[1]) = Concat(s.script)
        /\ \E prior \in {<<>>, <<PriorLine>>} :
               sink \in {prior \o w.wrote \o s.wrote,
                         prior \o s.wrote \o w.wrote}

====
